---- MODULE Spec2Model ----
(***************************************************************************)
(* Model of src/for_ES.ipynb: the ingestion pipeline (index_data,          *)
(* index_batch), the embedding call (embed_text) and the query pipeline    *)
(* (handle_query) against an Elasticsearch index.                          *)
(*                                                                         *)
(* The numbers of the script are IEEE 754 doubles: a sign, a mantissa of   *)
(* 53 binary digits and an exponent; the square root, the product, the     *)
(* quotient and the sum of the script each round to the nearest double,    *)
(* and to the even one of two nearest. The _score of a hit is a float (24  *)
(* digits), kept as its bit pattern, which orders as the number does.      *)
(***************************************************************************)
EXTENDS Integers, Sequences, FiniteSets, TLC

(* ------------------------------ bounds -------------------------------- *)
\* Longest data file (number of lines) that is explored.
MaxLines == 3
\* Number of index_data() calls that are explored.
MaxRuns == 2
\* BATCH_SIZE of the main script (1000 there), scaled down.
BATCH_SIZE == 2
\* SEARCH_SIZE of the main script (5 there), scaled down.
SEARCH_SIZE == 2

(* --------------------------- embedding model --------------------------- *)
\* Titles of question records in the data file.
Titles == {"CUDA performance", "HTML layout", ""}

\* Value of the title column of an answer record (the field is absent).
NoTitle == "NaN"

\* Texts a user types at the "Enter query: " prompt.
QueryTexts == {"cuda programming", "HTML layout"}

\* The loaded sentence encoder: one fixed vector per text.
Encoder(text) ==
    CASE text = "CUDA performance" -> <<4, 3>>
      [] text = "HTML layout"      -> <<-3, 2>>
      [] text = "cuda programming" -> <<3, -2>>
      [] text = ""                 -> <<0, 0>>
      [] OTHER                     -> <<0, 1>>

\* embed_text(text): session.run over the list, one vector per text, in order.
embed_text(text) == [i \in 1..Len(text) |-> Encoder(text[i])]

(* --------------------------- large integers ---------------------------- *)
\* Natural numbers of any size are sequences of limbs of LimbBits bits,
\* the least significant first and the most significant not zero.
LimbBits == 15

Base == 2 ^ LimbBits

RECURSIVE Limbs(_)
Limbs(n) == IF n = 0 THEN <<>> ELSE <<n % Base>> \o Limbs(n \div Base)

Limb(a, i) == IF i <= Len(a) THEN a[i] ELSE 0

RECURSIVE Trim(_)
Trim(a) ==
    IF a = <<>> \/ a[Len(a)] # 0 THEN a ELSE Trim(SubSeq(a, 1, Len(a) - 1))

RECURSIVE AddFrom(_, _, _, _)
AddFrom(a, b, i, c) ==
    IF i > Len(a) /\ i > Len(b) THEN Limbs(c)
    ELSE <<(Limb(a, i) + Limb(b, i) + c) % Base>>
         \o AddFrom(a, b, i + 1, (Limb(a, i) + Limb(b, i) + c) \div Base)

Add(a, b) == AddFrom(a, b, 1, 0)

RECURSIVE SubFrom(_, _, _, _)
SubFrom(a, b, i, c) ==
    IF i > Len(a) THEN <<>>
    ELSE <<(Limb(a, i) - Limb(b, i) - c + Base) % Base>>
         \o SubFrom(a, b, i + 1, IF Limb(a, i) - Limb(b, i) - c < 0 THEN 1 ELSE 0)

\* a - b, for a >= b
Sub(a, b) == Trim(SubFrom(a, b, 1, 0))

RECURSIVE CmpFrom(_, _, _)
CmpFrom(a, b, i) ==
    IF i = 0 THEN 0
    ELSE IF a[i] < b[i] THEN -1
    ELSE IF a[i] > b[i] THEN 1
    ELSE CmpFrom(a, b, i - 1)

\* -1, 0 or 1 as a is below, equal to or above b
Cmp(a, b) ==
    IF Len(a) < Len(b) THEN -1
    ELSE IF Len(a) > Len(b) THEN 1
    ELSE CmpFrom(a, b, Len(a))

Leq(a, b) == Cmp(a, b) <= 0

RECURSIVE TimesFrom(_, _, _, _)
TimesFrom(a, k, i, c) ==
    IF i > Len(a) THEN Limbs(c)
    ELSE <<(a[i] * k + c) % Base>>
         \o TimesFrom(a, k, i + 1, (a[i] * k + c) \div Base)

\* a * k, for a limb k
Times(a, k) == IF k = 0 THEN <<>> ELSE TimesFrom(a, k, 1, 0)

Shift(a, j) == IF a = <<>> THEN <<>> ELSE [i \in 1..j |-> 0] \o a

RECURSIVE MulFrom(_, _, _)
MulFrom(a, b, j) ==
    IF j > Len(b) THEN <<>>
    ELSE Add(Shift(Times(a, b[j]), j - 1), MulFrom(a, b, j + 1))

Mul(a, b) == MulFrom(a, b, 1)

Pow2(k) == Shift(<<2 ^ (k % LimbBits)>>, k \div LimbBits)

RECURSIVE Bits(_)
Bits(n) == IF n = 0 THEN 0 ELSE 1 + Bits(n \div 2)

\* Number of binary digits of a
BitLen(a) ==
    IF a = <<>> THEN 0 ELSE LimbBits * (Len(a) - 1) + Bits(a[Len(a)])

\* The largest limb g of lo..hi with d * g <= r
RECURSIVE Digit(_, _, _, _)
Digit(r, d, lo, hi) ==
    IF lo = hi THEN lo
    ELSE IF Leq(Times(d, (lo + hi + 1) \div 2), r)
    THEN Digit(r, d, (lo + hi + 1) \div 2, hi)
    ELSE Digit(r, d, lo, (lo + hi + 1) \div 2 - 1)

\* h, the quotient and the remainder of a division by d * Base, with the
\* next limb g of the quotient
DivDigit(h, d, g) ==
    [q |-> Add(Shift(h.q, 1), Limbs(g)), r |-> Sub(h.r, Times(d, g))]

\* One step of the long division by d
DivStep(h, d) == DivDigit(h, d, Digit(h.r, d, 0, Base - 1))

\* The quotient q and the remainder r of n by d
RECURSIVE DivMod(_, _)
DivMod(n, d) ==
    IF Cmp(n, d) < 0 THEN [q |-> <<>>, r |-> n]
    ELSE DivStep(DivMod(n, Shift(d, 1)), d)

Even(a) == a = <<>> \/ a[1] % 2 = 0

\* The quotient of qr, a division by d, rounded to the nearest integer, and
\* to the even one of two nearest (the IEEE 754 default).
Nearest(qr, d) ==
    IF Cmp(Times(qr.r, 2), d) > 0 \/ (Times(qr.r, 2) = d /\ ~Even(qr.q))
    THEN Add(qr.q, <<1>>) ELSE qr.q

\* A floating-point number is neg, m and e: it is m * 2^e, negated if neg;
\* with p binary digits, 2^(p-1) <= m < 2^p. The exponent is not bounded:
\* the numbers of the script are far from the largest and the smallest
\* double and float.
Zero == [neg |-> FALSE, m |-> <<>>, e |-> 0]

\* A mantissa that the rounding carried to 2^p takes the next exponent.
Normal(p, neg, m, e) ==
    IF m = Pow2(p) THEN [neg |-> neg, m |-> Pow2(p - 1), e |-> e + 1]
    ELSE [neg |-> neg, m |-> m, e |-> e]

\* n / d * 2^e to p binary digits, for a quotient of p digits
RoundedAt(p, neg, n, d, e) == Normal(p, neg, Nearest(DivMod(n, d), d), e)

\* num / den * 2^e0 to p binary digits, where num / den / 2^e has p or
\* p + 1 digits before the point
RoundedNear(p, neg, num, den, e0, e) ==
    IF Leq(Mul(den, Pow2(p + IF e > 0 THEN e ELSE 0)),
           Mul(num, Pow2(IF e < 0 THEN 0 - e ELSE 0)))
    THEN RoundedAt(p, neg, Mul(num, Pow2(IF e + 1 < 0 THEN 0 - e - 1 ELSE 0)),
                   Mul(den, Pow2(IF e + 1 > 0 THEN e + 1 ELSE 0)), e0 + e + 1)
    ELSE RoundedAt(p, neg, Mul(num, Pow2(IF e < 0 THEN 0 - e ELSE 0)),
                   Mul(den, Pow2(IF e > 0 THEN e ELSE 0)), e0 + e)

\* num / den * 2^e0, negated if neg, rounded to p binary digits: the
\* nearest number, and of two nearest the one with the even mantissa
Rounded(p, neg, num, den, e0) ==
    IF num = <<>> THEN Zero
    ELSE RoundedNear(p, neg, num, den, e0, BitLen(num) - BitLen(den) - p)

\* Python's and the script's numbers: IEEE 754 binary64; the store's score:
\* binary32.
DoubleDigits == 53

FloatDigits == 24

(* ------------------------------ scoring -------------------------------- *)
RECURSIVE DotFrom(_, _, _)
DotFrom(a, b, i) ==
    IF i > Len(a) THEN 0 ELSE a[i] * b[i] + DotFrom(a, b, i + 1)

\* sum(a[i] * b[i])
Dot(a, b) == DotFrom(a, b, 1)

\* The largest limb g of lo..hi with (s + g)^2 <= X
RECURSIVE SqrtDigit(_, _, _, _)
SqrtDigit(s, X, lo, hi) ==
    IF lo = hi THEN lo
    ELSE IF Leq(Mul(Add(s, Limbs((lo + hi + 1) \div 2)),
                    Add(s, Limbs((lo + hi + 1) \div 2))), X)
    THEN SqrtDigit(s, X, (lo + hi + 1) \div 2, hi)
    ELSE SqrtDigit(s, X, lo, (lo + hi + 1) \div 2 - 1)

\* One step of the square root of X: s is Base times the whole part of the
\* square root of X / Base^2.
RootStep(s, X) == Add(s, Limbs(SqrtDigit(s, X, 0, Base - 1)))

\* The whole part of the square root of X
RECURSIVE Floor_sqrt(_)
Floor_sqrt(X) ==
    IF X = <<>> THEN <<>>
    ELSE RootStep(Shift(Floor_sqrt(SubSeq(X, 3, Len(X))), 1), X)

\* Limbs of the square root below the point: more digits than a double has
SqrtLimbs == 4

\* 1 when the square root of n is not r / Base^SqrtLimbs exactly
Inexact(n, r) == IF Mul(r, r) = Shift(Limbs(n), 2 * SqrtLimbs) THEN <<>> ELSE <<1>>

\* sqrt(n), correctly rounded, for an integer n >= 0: the digits of the
\* square root, and one more digit that tells a root with further digits
\* from one that ends there
SqrtFrom(n, r) ==
    Rounded(DoubleDigits, FALSE, Add(Times(r, 2), Inexact(n, r)), <<1>>,
            0 - (SqrtLimbs * LimbBits + 1))

Sqrt(n) ==
    IF n = 0 THEN Zero
    ELSE SqrtFrom(n, Floor_sqrt(Shift(Limbs(n), 2 * SqrtLimbs)))

\* a * b
Product(a, b) ==
    Rounded(DoubleDigits, a.neg # b.neg, Mul(a.m, b.m), <<1>>, a.e + b.e)

\* d / b, for an integer d and a number b that is not zero
Quotient(d, b) ==
    Rounded(DoubleDigits, (d < 0) # b.neg, Limbs(IF d < 0 THEN 0 - d ELSE d),
            b.m, 0 - b.e)

\* c + 1.0: c is C / 2^k and 1.0 is P / 2^k, both integers
PlusOneAt(neg, C, P, k) ==
    IF ~neg THEN Rounded(DoubleDigits, FALSE, Add(C, P), <<1>>, 0 - k)
    ELSE IF Leq(C, P) THEN Rounded(DoubleDigits, FALSE, Sub(P, C), <<1>>, 0 - k)
    ELSE Rounded(DoubleDigits, TRUE, Sub(C, P), <<1>>, 0 - k)

PlusOne(c) ==
    IF c.e < 0 THEN PlusOneAt(c.neg, c.m, Pow2(0 - c.e), 0 - c.e)
    ELSE PlusOneAt(c.neg, Mul(c.m, Pow2(c.e)), <<1>>, 0)

\* The vectors the encoder produces, and the magnitude of each.
Vectors == {Encoder(t) : t \in Titles \cup QueryTexts \cup {NoTitle}}

Magnitudes == [a \in Vectors |-> Sqrt(Dot(a, a))]

\* sqrt(sum(a[i] * a[i]))
Magnitude(a) == IF a \in Vectors THEN Magnitudes[a] ELSE Sqrt(Dot(a, a))

\* The similarity is 0 / 0 (not a number) when a magnitude is zero.
IsNaN(q, v) == Magnitude(q) = Zero \/ Magnitude(v) = Zero

\* cosineSimilarity(params.query_vector, doc['title_vector']), for a pair
\* that is not IsNaN: dot / (|q| * |v|), the product and the quotient each
\* rounded.
cosineSimilarity(q, v) ==
    Quotient(Dot(q, v), Product(Magnitude(q), Magnitude(v)))

\* Variant of ScriptScore: the raw similarity, without the shift.
ScriptScoreRaw(q, v) == cosineSimilarity(q, v)

\* The script of the script_score query.
ScriptScore(q, v) == PlusOne(cosineSimilarity(q, v))

\* The number as a binary32
ToFloat(x) == Rounded(FloatDigits, x.neg, x.m, <<1>>, x.e)

\* The binary32 number as an integer that orders as the number does: its
\* bit pattern (exponent and fraction), negated for a negative number.
FloatBits(f) ==
    IF f.m = <<>> THEN 0
    ELSE (IF f.neg THEN -1 ELSE 1)
         * ((f.e + FloatDigits - 1 + 127) * 2 ^ (FloatDigits - 1)
            + Limb(f.m, 1) + Base * Limb(f.m, 2) - 2 ^ (FloatDigits - 1))

\* The _score of each pair of vectors of the encoder that is not IsNaN.
Scores ==
    [q \in Vectors |->
        [v \in Vectors |->
            IF IsNaN(q, v) THEN 0 ELSE FloatBits(ToFloat(ScriptScore(q, v)))]]

\* The _score the store gives a document of vector v for the query vector
\* q: the result of the script as a float.
Score(q, v) ==
    IF q \in Vectors /\ v \in Vectors THEN Scores[q][v]
    ELSE FloatBits(ToFloat(ScriptScore(q, v)))

(* ------------------------------- state --------------------------------- *)
VARIABLES
    stream,         \* lines of DATA_FILE, parsed
    indexExists,    \* the index INDEX_NAME exists in the store
    stored,         \* documents of the index, in write order
    visible,        \* number of documents of `stored` a search sees
    nextId,         \* next identifier the store assigns
    pc,             \* "idle" | "loop" | "refresh" | "done" | "failed"
    pos,            \* index_data: next line of the file
    docs,           \* index_data: pending batch
    count,          \* index_data: question records read
    titles,         \* index_batch: titles of the batch
    title_vectors,  \* index_batch: what embed_text returned
    requests,       \* index_batch: requests built for bulk
    ops,            \* store operations of the current index_data run
    error,          \* exception that left the last call, or "none"
    runs,           \* index_data calls so far
    snapshots,      \* index content at the end of each completed run
    response,       \* the last answered query: text, index generation
                    \* (runs at that time), hits; <<>> before the first
    repeated,       \* the last answered query repeated the one before it
                    \* (same text, index not rebuilt in between)
    mainpc,         \* __main__: "start" | "init" | "ready" | "loop" |
                    \* "close" | "exit" | "crashed"
    session,        \* the TensorFlow session: "none" | "created" |
                    \* "ready" (initializers run) | "closed"
    round,          \* run_query_loop: iterations completed
    frames          \* handle_query: position and locals of the call each
                    \* thread is in

vars == <<stream, indexExists, stored, visible, nextId, pc, pos, docs, count,
          titles, title_vectors, requests, ops, error, runs, snapshots, response, repeated,
          mainpc, session, round, frames>>

mainVars == <<mainpc, session, round, frames>>

storeVars == <<indexExists, stored, visible, nextId>>
loopVars == <<pos, docs, count>>
batchVars == <<titles, title_vectors, requests>>

(* ----------------------------- callers --------------------------------- *)
\* The thread that runs __main__, and one more that calls handle_query.
Main == "main"

Threads == {Main, "worker"}

\* A thread that is not in handle_query.
NoCall == [pc |-> "idle", query |-> "", query_vector |-> <<>>, hits |-> <<>>,
           error |-> "none"]

(* ---------------------------- data file -------------------------------- *)
\* What one line of the data file can be: a question with a title, or an
\* answer.
LineKinds == Titles \cup {NoTitle}

SourceRecord(kind, line) ==
    [type  |-> IF kind = NoTitle THEN "answer" ELSE "question",
     title |-> kind,
     body  |-> line]

DataFiles ==
    UNION {{[i \in 1..n |-> SourceRecord(f[i], i)] : f \in [1..n -> LineKinds]}
           : n \in 0..MaxLines}

\* A line that json.loads rejects (not JSON, or empty).
NotJson == "<not json>"

\* The type of a record that has no "type" field.
NoType == "<no type>"

\* A question record that has no "title" field.
QuestionNoTitle == "<question without title>"

\* What one line of a data file can be when malformed lines occur as well.
RawLineKinds == LineKinds \cup {NotJson, NoType, QuestionNoTitle}

RawRecord(kind, line) ==
    IF kind = NotJson
    THEN [type |-> NotJson, title |-> NoTitle, body |-> line]
    ELSE IF kind = NoType
    THEN [type |-> NoType, title |-> "CUDA performance", body |-> line]
    ELSE IF kind = QuestionNoTitle
    THEN [type |-> "question", title |-> NoTitle, body |-> line]
    ELSE SourceRecord(kind, line)

RawDataFiles ==
    UNION {{[i \in 1..n |-> RawRecord(f[i], i)] : f \in [1..n -> RawLineKinds]}
           : n \in 0..MaxLines}

\* json.loads(line) and doc["type"] succeed on the record.
Readable(doc) == doc.type \notin {NotJson, NoType}

Init ==
    /\ stream \in DataFiles
    /\ indexExists = FALSE
    /\ stored = <<>>
    /\ visible = 0
    /\ nextId = 1
    /\ pc = "idle"
    /\ pos = 1
    /\ docs = <<>>
    /\ count = 0
    /\ titles = <<>>
    /\ title_vectors = <<>>
    /\ requests = <<>>
    /\ ops = <<>>
    /\ error = "none"
    /\ runs = 0
    /\ snapshots = <<>>
    /\ response = <<>>
    /\ repeated = FALSE
    /\ mainpc = "ready"
    /\ session = "ready"
    /\ round = 0
    /\ frames = [t \in Threads |-> NoCall]

Op(name, n) == [op |-> name, n |-> n]

\* No call is in progress: the caller may start one.
AtRest == pc \in {"idle", "done", "failed"}

\* Variant of CallIndexData: the index is not dropped, its documents stay.
CallIndexDataKeepsIndex ==
    /\ AtRest
    /\ runs < MaxRuns
    /\ runs' = runs + 1
    /\ indexExists' = TRUE
    /\ ops' = <<Op("delete", 0), Op("create", 0)>>
    /\ pos' = 1
    /\ docs' = <<>>
    /\ count' = 0
    /\ titles' = <<>>
    /\ title_vectors' = <<>>
    /\ requests' = <<>>
    /\ error' = "none"
    /\ pc' = "loop"
    /\ UNCHANGED <<mainVars, stream, stored, visible, nextId, snapshots, response,
                   repeated>>

\* index_data, up to the loop: drop the index (a missing one is ignored),
\* create it from the schema file, docs = [], count = 0.
CallIndexData ==
    /\ AtRest
    /\ runs < MaxRuns
    /\ runs' = runs + 1
    /\ indexExists' = TRUE
    /\ stored' = <<>>
    /\ visible' = 0
    /\ ops' = <<Op("delete", 0), Op("create", 0)>>
    /\ pos' = 1
    /\ docs' = <<>>
    /\ count' = 0
    /\ titles' = <<>>
    /\ title_vectors' = <<>>
    /\ requests' = <<>>
    /\ error' = "none"
    /\ pc' = "loop"
    /\ UNCHANGED <<mainVars, stream, nextId, snapshots, response, repeated>>

(* ---------------------------- index_batch ------------------------------ *)
\* What the embedding provider can answer for a list of texts: one vector
\* per text in order; an exception; or, when it breaks its contract, one
\* vector too few or one too many.
Reply(raised, vectors) == [raised |-> raised, vectors |-> vectors]

ProviderReplies(text) ==
    {Reply(FALSE, embed_text(text)),
     Reply(TRUE, <<>>),
     Reply(FALSE, SubSeq(embed_text(text), 1, Len(text) - 1)),
     Reply(FALSE, Append(embed_text(text), <<0, 1>>))}

\* Variant of BuildRequests: every request gets title_vectors[0].
BuildRequestsFirstVector(batch, vectors, n) ==
    [i \in 1..n |->
        [type         |-> batch[i].type,
         title        |-> batch[i].title,
         body         |-> batch[i].body,
         title_vector |-> vectors[1]]]

\* The requests index_batch builds from the first n vectors.
BuildRequests(batch, vectors, n) ==
    [i \in 1..n |->
        [type         |-> batch[i].type,
         title        |-> batch[i].title,
         body         |-> batch[i].body,
         title_vector |-> vectors[i]]]

\* The requests of `reqs` the store accepts, in order.
RECURSIVE Accepted(_, _, _)
Accepted(reqs, failed, i) ==
    IF i > Len(reqs) THEN <<>>
    ELSE IF i \in failed THEN Accepted(reqs, failed, i + 1)
    ELSE <<reqs[i]>> \o Accepted(reqs, failed, i + 1)

\* titles = [doc["title"] for doc in docs]
TitlesOf(batch) == [i \in 1..Len(batch) |-> batch[i].title]

\* index_batch(docs) when embed_text answers `reply` and the store rejects
\* the requests numbered in `failed`.
index_batch(batch, reply, failed) ==
    IF \E i \in DOMAIN batch : batch[i].title = NoTitle
    THEN \* doc["title"] raises on a record without the field
         \* and leaves titles unbound
         [error |-> "KeyError", titles |-> <<>>, title_vectors |-> <<>>,
          requests |-> <<>>, bulkCalled |-> FALSE, written |-> <<>>]
    ELSE IF reply.raised
    THEN [error |-> "EmbeddingError", titles |-> TitlesOf(batch),
          title_vectors |-> <<>>,
          requests |-> <<>>, bulkCalled |-> FALSE, written |-> <<>>]
    ELSE IF Len(reply.vectors) < Len(batch)
    THEN \* title_vectors[i] raises on the first record without a vector
         [error |-> "IndexError", titles |-> TitlesOf(batch),
          title_vectors |-> reply.vectors,
          requests |-> BuildRequests(batch, reply.vectors, Len(reply.vectors)),
          bulkCalled |-> FALSE, written |-> <<>>]
    ELSE [error |-> IF failed = {} THEN "none" ELSE "BulkIndexError",
          titles |-> TitlesOf(batch),
          title_vectors |-> reply.vectors,
          requests |-> BuildRequests(batch, reply.vectors, Len(batch)),
          bulkCalled |-> TRUE,
          written |-> Accepted(BuildRequests(batch, reply.vectors, Len(batch)),
                               failed, 1)]

\* The store gives each accepted request an identifier of its own.
WithIds(reqs, first) ==
    [i \in 1..Len(reqs) |->
        [id           |-> first + i - 1,
         type         |-> reqs[i].type,
         title        |-> reqs[i].title,
         body         |-> reqs[i].body,
         title_vector |-> reqs[i].title_vector]]

\* The documents of the index after index_data has run to its end on
\* `file` with a provider and a store that keep to their contracts.
Ingested(file) ==
    LET qs == SelectSeq(file, LAMBDA r : r.type = "question")
    IN  WithIds(BuildRequests(qs, embed_text(TitlesOf(qs)), Len(qs)), 1)

\* The dimension the mapping of the index declares for title_vector.
Dims == Len(Encoder(""))

\* The requests the store has to reject: the vector has not the declared
\* number of dimensions.
WrongDims(reqs) == {i \in DOMAIN reqs : Len(reqs[i].title_vector) # Dims}

\* A call of index_batch(batch) from index_data, with embed_text answering
\* one of `replies`, and what follows it in index_data: on success the
\* progress report, docs becomes docsAfter and control goes to pcAfter; an
\* exception leaves index_data.
FlushFrom(replies, batch, docsAfter, posAfter, pcAfter, countAfter) ==
    \E reply \in replies :
    \E failed \in SUBSET (1..Len(batch)) :
        LET r == index_batch(batch, reply, failed)
        IN  /\ (~r.bulkCalled) => failed = {}
            /\ r.bulkCalled => WrongDims(r.requests) \subseteq failed
            /\ titles' = r.titles
            /\ title_vectors' = r.title_vectors
            /\ requests' = r.requests
            /\ stored' = stored \o WithIds(r.written, nextId)
            /\ nextId' = nextId + Len(r.written)
            /\ count' = countAfter
            /\ UNCHANGED <<indexExists, visible>>
            /\ IF r.error = "none"
               THEN /\ ops' = ops \o <<Op("bulk", Len(r.requests)),
                                       Op("print", countAfter)>>
                    /\ docs' = docsAfter
                    /\ pos' = posAfter
                    /\ pc' = pcAfter
                    /\ error' = "none"
               ELSE /\ ops' = IF r.bulkCalled
                              THEN Append(ops, Op("bulk", Len(r.requests)))
                              ELSE ops
                    /\ docs' = batch
                    /\ pos' = pos
                    /\ pc' = "failed"
                    /\ error' = r.error

\* The same with a provider that keeps to the declared dimension.
Flush(batch, docsAfter, posAfter, pcAfter, countAfter) ==
    FlushFrom(ProviderReplies(TitlesOf(batch)), batch, docsAfter, posAfter,
              pcAfter, countAfter)

(* ----------------------------- index_data ------------------------------ *)
\* Variant of Skipped: the type test is inverted, the questions are skipped.
SkippedQuestions(doc) == doc.type = "question"

\* if doc["type"] != "question": continue
Skipped(doc) == doc.type # "question"

\* Variant of BatchFull: the test is taken one record early.
BatchFullOffByOne(n) == (n + 1) % BATCH_SIZE = 0

\* if count % BATCH_SIZE == 0
BatchFull(n) == n % BATCH_SIZE = 0

\* One iteration of `for line in data_file` on a record that is not a
\* question: continue.
SkipLine ==
    /\ pc = "loop"
    /\ pos <= Len(stream)
    /\ Readable(stream[pos])
    /\ Skipped(stream[pos])
    /\ pos' = pos + 1
    /\ UNCHANGED <<mainVars, stream, storeVars, pc, docs, count, batchVars, ops, error,
                   runs, snapshots, response, repeated>>

\* One iteration on a question that does not complete a batch.
AppendLine ==
    /\ pc = "loop"
    /\ pos <= Len(stream)
    /\ Readable(stream[pos])
    /\ ~Skipped(stream[pos])
    /\ ~BatchFull(count + 1)
    /\ docs' = Append(docs, stream[pos])
    /\ count' = count + 1
    /\ pos' = pos + 1
    /\ UNCHANGED <<mainVars, stream, storeVars, pc, batchVars, ops, error, runs,
                   snapshots, response, repeated>>

\* One iteration on a question that completes a batch: index_batch(docs),
\* docs = [], report.
\* Variant of FlushLine: the pending batch is not emptied after the write.
FlushLineKeepsDocs ==
    /\ pc = "loop"
    /\ pos <= Len(stream)
    /\ Readable(stream[pos])
    /\ ~Skipped(stream[pos])
    /\ BatchFull(count + 1)
    /\ Flush(Append(docs, stream[pos]), Append(docs, stream[pos]), pos + 1,
             "loop", count + 1)
    /\ UNCHANGED <<mainVars, stream, runs, snapshots, response, repeated>>

FlushLine ==
    /\ pc = "loop"
    /\ pos <= Len(stream)
    /\ Readable(stream[pos])
    /\ ~Skipped(stream[pos])
    /\ BatchFull(count + 1)
    /\ Flush(Append(docs, stream[pos]), <<>>, pos + 1, "loop", count + 1)
    /\ UNCHANGED <<mainVars, stream, runs, snapshots, response, repeated>>

\* After the loop, with records pending: index_batch(docs), report.
FinalFlush ==
    /\ pc = "loop"
    /\ pos > Len(stream)
    /\ docs # <<>>
    /\ Flush(docs, docs, pos, "refresh", count)
    /\ UNCHANGED <<mainVars, stream, runs, snapshots, response, repeated>>

\* After the loop, with nothing pending.
NoFinalFlush ==
    /\ pc = "loop"
    /\ pos > Len(stream)
    /\ docs = <<>>
    /\ pc' = "refresh"
    /\ UNCHANGED <<mainVars, stream, storeVars, loopVars, batchVars, ops, error, runs,
                   snapshots, response, repeated>>

\* One iteration on a line that json.loads rejects or on a record without
\* "type": the exception leaves index_data.
BadLine ==
    /\ pc = "loop"
    /\ pos <= Len(stream)
    /\ ~Readable(stream[pos])
    /\ pc' = "failed"
    /\ error' = IF stream[pos].type = NotJson THEN "JSONDecodeError"
                ELSE "KeyError"
    /\ UNCHANGED <<mainVars, stream, storeVars, loopVars, batchVars, ops, runs,
                   snapshots, response, repeated>>

\* What a provider can answer when it may also return a vector that is one
\* component short.
DimReplies(text) ==
    ProviderReplies(text)
    \cup {Reply(FALSE, [embed_text(text) EXCEPT ![i] = SubSeq(@, 1, Dims - 1)])
            : i \in 1..Len(text)}

\* FlushLine with such a provider.
DimFlushLine ==
    /\ pc = "loop"
    /\ pos <= Len(stream)
    /\ Readable(stream[pos])
    /\ ~Skipped(stream[pos])
    /\ BatchFull(count + 1)
    /\ FlushFrom(DimReplies(TitlesOf(Append(docs, stream[pos]))),
                 Append(docs, stream[pos]), <<>>, pos + 1, "loop", count + 1)
    /\ UNCHANGED <<mainVars, stream, runs, snapshots, response, repeated>>

\* FinalFlush with such a provider.
DimFinalFlush ==
    /\ pc = "loop"
    /\ pos > Len(stream)
    /\ docs # <<>>
    /\ FlushFrom(DimReplies(TitlesOf(docs)), docs, docs, pos, "refresh", count)
    /\ UNCHANGED <<mainVars, stream, runs, snapshots, response, repeated>>

\* The stored documents without the identifiers the store assigned.
Content(ds) ==
    [i \in 1..Len(ds) |->
        [type         |-> ds[i].type,
         title        |-> ds[i].title,
         body         |-> ds[i].body,
         title_vector |-> ds[i].title_vector]]

\* Variant of Refresh: index_data returns without the refresh.
ReturnWithoutRefresh ==
    /\ pc = "refresh"
    /\ snapshots' = Append(snapshots, Content(stored))
    /\ pc' = "done"
    /\ UNCHANGED <<mainVars, stream, storeVars, loopVars, batchVars, ops, error, runs,
                   response, repeated>>

\* client.indices.refresh, "Done indexing.", return.
Refresh ==
    /\ pc = "refresh"
    /\ visible' = Len(stored)
    /\ ops' = Append(ops, Op("refresh", 0))
    /\ snapshots' = Append(snapshots, Content(stored))
    /\ pc' = "done"
    /\ UNCHANGED <<mainVars, stream, indexExists, stored, nextId, loopVars, batchVars,
                   error, runs, response, repeated>>

(* ----------------------------- handle_query ---------------------------- *)
\* One hit of the response: _id, _score and the _source fields asked for.
Hit(d, q) ==
    [id    |-> d.id,
     score |-> Score(q, d.title_vector),
     title |-> d.title,
     body  |-> d.body]

Min(a, b) == IF a < b THEN a ELSE b

\* Variant of Rankings: the documents are matched but not ordered by score.
RankingsAnyOrder(q, size) ==
    {s \in [1..Min(size, visible) -> 1..visible] :
        \A i, j \in DOMAIN s : i # j => s[i] # s[j]}

\* The ways the store can rank the visible documents for query vector q and
\* cut the ranking at `size`: match_all, descending _score; the request
\* names no second sort key, so documents of equal score come in any order.
Rankings(q, size) ==
    LET score == [x \in 1..visible |-> Score(q, stored[x].title_vector)]
    IN  {s \in [1..Min(size, visible) -> 1..visible] :
            /\ \A i, j \in DOMAIN s : i # j => s[i] # s[j]
            /\ \A i, j \in DOMAIN s : i < j => score[s[i]] >= score[s[j]]
            /\ \A x \in 1..visible : \A i \in DOMAIN s :
                  (\A j \in DOMAIN s : s[j] # x) => score[x] <= score[s[i]]}

\* Variant of SearchResponses: "size" is not honoured, every match is
\* returned.
SearchResponsesUncut(q, size) ==
    {[i \in DOMAIN s |-> Hit(stored[s[i]], q)] : s \in Rankings(q, visible)}

\* response["hits"]["hits"] for each ranking.
SearchResponses(q, size) ==
    {[i \in DOMAIN s |-> Hit(stored[s[i]], q)] : s \in Rankings(q, size)}

\* The script fails on a visible document (its score is not a number).
ScriptFails(q) ==
    \E x \in 1..visible : IsNaN(q, stored[x].title_vector)

\* The script gives a visible document a score below 0 (the similarity was
\* rounded to below -1.0): a store that refuses negative scores rejects the
\* search, another returns the score.
NegativeScore(q) ==
    \E x \in 1..visible :
        /\ ~IsNaN(q, stored[x].title_vector)
        /\ Score(q, stored[x].title_vector) < 0

\* handle_query to its end: the query is embedded, the store searched, the
\* hits printed.
QueryAnswered ==
    /\ AtRest
    /\ indexExists
    /\ \E query \in QueryTexts :
       \E reply \in ProviderReplies(<<query>>) :
          /\ ~reply.raised
          /\ Len(reply.vectors) >= 1
          /\ ~ScriptFails(reply.vectors[1])
          /\ \E hits \in SearchResponses(reply.vectors[1], SEARCH_SIZE) :
                response' = <<[text |-> query, gen |-> runs, hits |-> hits]>>
          /\ repeated' = (/\ response # <<>>
                          /\ response[1].text = query
                          /\ response[1].gen = runs)
    /\ error' = "none"
    /\ UNCHANGED <<mainVars, stream, storeVars, pc, loopVars, batchVars, ops, runs,
                   snapshots>>

\* handle_query left by an exception of embed_text: session.run raised, or
\* it returned no vector and [0] raised.
QueryEmbeddingFails ==
    /\ AtRest
    /\ \E query \in QueryTexts :
       \E reply \in ProviderReplies(<<query>>) :
          /\ reply.raised \/ Len(reply.vectors) < 1
          /\ error' = IF reply.raised THEN "EmbeddingError" ELSE "IndexError"
    /\ UNCHANGED <<mainVars, stream, storeVars, pc, loopVars, batchVars, ops, runs,
                   snapshots, response, repeated>>

\* handle_query left by an exception of client.search: the index is
\* missing, the script fails on a document, or the store is unreachable.
QuerySearchFails ==
    /\ AtRest
    /\ \E query \in QueryTexts :
          \/ /\ ~indexExists
             /\ error' = "NotFoundError"
          \/ /\ indexExists
             /\ \/ ScriptFails(embed_text(<<query>>)[1])
                \/ NegativeScore(embed_text(<<query>>)[1])
             /\ error' = "RequestError"
          \/ error' = "ConnectionError"
    /\ UNCHANGED <<mainVars, stream, storeVars, pc, loopVars, batchVars, ops, runs,
                   snapshots, response, repeated>>

(* ------------------- handle_query, statement by statement -------------- *)
\* Everything but the callers' state.
ingestVars == <<stream, storeVars, pc, loopVars, batchVars, ops, runs,
                snapshots, response, repeated>>

\* Thread t calls handle_query.
Call(t) ==
    /\ frames[t].pc = "idle"
    /\ frames' = [frames EXCEPT ![t] = [NoCall EXCEPT !.pc = "input"]]
    /\ UNCHANGED <<ingestVars, error, mainpc, session, round>>

\* query = input("Enter query: ")
Input(t) ==
    /\ frames[t].pc = "input"
    /\ \E text \in QueryTexts :
          frames' = [frames EXCEPT ![t].query = text, ![t].pc = "embed"]
    /\ UNCHANGED <<ingestVars, error, mainpc, session, round>>

\* Variant of Embedded: a vector another call has computed is used again.
EmbeddedShared(fs, t, reply) ==
    IF \E u \in Threads \ {t} : fs[u].query_vector # <<>>
    THEN LET u == CHOOSE u \in Threads \ {t} : fs[u].query_vector # <<>>
         IN  [fs EXCEPT ![t].query_vector = fs[u].query_vector,
                        ![t].pc = "search"]
    ELSE [fs EXCEPT ![t].query_vector = reply.vectors[1], ![t].pc = "search"]

\* query_vector = embed_text([query])[0]
Embedded(fs, t, reply) ==
    [fs EXCEPT ![t].query_vector = reply.vectors[1], ![t].pc = "search"]

Embed(t) ==
    /\ frames[t].pc = "embed"
    /\ session = "ready"
    /\ \E reply \in ProviderReplies(<<frames[t].query>>) :
          /\ ~reply.raised
          /\ Len(reply.vectors) >= 1
          /\ frames' = Embedded(frames, t, reply)
    /\ UNCHANGED <<ingestVars, error, mainpc, session, round>>

\* embed_text raises (session.run), or returns no vector and [0] raises.
EmbedFails(t) ==
    /\ frames[t].pc = "embed"
    /\ \E reply \in ProviderReplies(<<frames[t].query>>) :
          /\ reply.raised \/ Len(reply.vectors) < 1
          /\ frames' = [frames EXCEPT
                           ![t].pc = "raised",
                           ![t].error = IF reply.raised THEN "EmbeddingError"
                                        ELSE "IndexError"]
    /\ UNCHANGED <<ingestVars, error, mainpc, session, round>>

\* response = client.search(...) and the printing of the hits.
Search(t) ==
    /\ frames[t].pc = "search"
    /\ indexExists
    /\ ~ScriptFails(frames[t].query_vector)
    /\ \E hits \in SearchResponses(frames[t].query_vector, SEARCH_SIZE) :
          frames' = [frames EXCEPT ![t].hits = hits, ![t].pc = "done"]
    /\ UNCHANGED <<ingestVars, error, mainpc, session, round>>

\* client.search raises: the index is missing, the script fails on a
\* document, or the store is unreachable.
SearchFails(t) ==
    /\ frames[t].pc = "search"
    /\ \E e \in {"NotFoundError", "RequestError", "ConnectionError"} :
          /\ e = "NotFoundError" => ~indexExists
          /\ e = "RequestError" =>
                /\ indexExists
                /\ \/ ScriptFails(frames[t].query_vector)
                   \/ NegativeScore(frames[t].query_vector)
          /\ frames' = [frames EXCEPT ![t].pc = "raised", ![t].error = e]
    /\ UNCHANGED <<ingestVars, error, mainpc, session, round>>

\* handle_query returns or is left by its exception in a thread other than
\* the one of run_query_loop.
Return(t) ==
    /\ frames[t].pc \in {"done", "raised"}
    /\ frames' = [frames EXCEPT ![t] = NoCall]
    /\ UNCHANGED <<ingestVars, error, mainpc, session, round>>

(* ----------------------- __main__ and run_query_loop ------------------- *)
\* for i in range (5)
QueryRounds == 5

\* session = tf.Session(config=config)
MainCreateSession ==
    /\ mainpc = "start"
    /\ session = "none"
    /\ session' = "created"
    /\ mainpc' = "init"
    /\ UNCHANGED <<ingestVars, error, round, frames>>

\* session.run of the two initializers and client = Elasticsearch(); the
\* call of index_data that follows is text inside a string literal, so
\* run_query_loop is entered next.
MainInitialize ==
    /\ mainpc = "init"
    /\ session' = "ready"
    /\ mainpc' = "loop"
    /\ UNCHANGED <<ingestVars, error, round, frames>>

\* One more iteration of the loop: handle_query() inside try.
MainCall ==
    /\ mainpc = "loop"
    /\ round < QueryRounds
    /\ Call(Main)

\* KeyboardInterrupt is raised in the main thread inside handle_query.
Interrupt ==
    /\ mainpc = "loop"
    /\ frames[Main].pc \in {"input", "embed", "search"}
    /\ frames' = [frames EXCEPT ![Main].pc = "interrupted",
                                ![Main].error = "KeyboardInterrupt"]
    /\ UNCHANGED <<ingestVars, error, mainpc, session, round>>

\* Variant of MainBreak: the interrupt is caught and the loop goes on.
MainBreakContinues ==
    /\ mainpc = "loop"
    /\ frames[Main].pc = "interrupted"
    /\ frames' = [frames EXCEPT ![Main] = NoCall]
    /\ UNCHANGED <<ingestVars, error, mainpc, session, round>>

\* except KeyboardInterrupt: break
MainBreak ==
    /\ mainpc = "loop"
    /\ frames[Main].pc = "interrupted"
    /\ frames' = [frames EXCEPT ![Main] = NoCall]
    /\ mainpc' = "close"
    /\ UNCHANGED <<ingestVars, error, session, round>>

\* handle_query returned: next i.
MainReturn ==
    /\ mainpc = "loop"
    /\ frames[Main].pc = "done"
    /\ frames' = [frames EXCEPT ![Main] = NoCall]
    /\ round' = round + 1
    /\ UNCHANGED <<ingestVars, error, mainpc, session>>

\* range (5) is exhausted: run_query_loop returns.
MainLoopEnd ==
    /\ mainpc = "loop"
    /\ round = QueryRounds
    /\ frames[Main].pc = "idle"
    /\ mainpc' = "close"
    /\ UNCHANGED <<ingestVars, error, session, round, frames>>

\* Any other exception of handle_query matches no except clause: it leaves
\* run_query_loop and __main__, and the statements after the loop are not
\* executed.
MainCrash ==
    /\ mainpc = "loop"
    /\ frames[Main].pc = "raised"
    /\ error' = frames[Main].error
    /\ frames' = [frames EXCEPT ![Main] = NoCall]
    /\ mainpc' = "crashed"
    /\ UNCHANGED <<ingestVars, session, round>>

\* session.close()
MainClose ==
    /\ mainpc = "close"
    /\ session' = "closed"
    /\ mainpc' = "exit"
    /\ UNCHANGED <<ingestVars, error, round, frames>>

\* Ingestion: index_data is called, run after run.
Next ==
    \/ CallIndexData
    \/ SkipLine
    \/ AppendLine
    \/ FlushLine
    \/ FinalFlush
    \/ NoFinalFlush
    \/ Refresh

Spec == Init /\ [][Next]_vars

\* Ingestion of any data file, malformed lines included, with a provider
\* that may return vectors of the wrong dimension.
FaultInit ==
    /\ stream \in RawDataFiles
    /\ indexExists = FALSE
    /\ stored = <<>>
    /\ visible = 0
    /\ nextId = 1
    /\ pc = "idle"
    /\ pos = 1
    /\ docs = <<>>
    /\ count = 0
    /\ titles = <<>>
    /\ title_vectors = <<>>
    /\ requests = <<>>
    /\ ops = <<>>
    /\ error = "none"
    /\ runs = 0
    /\ snapshots = <<>>
    /\ response = <<>>
    /\ repeated = FALSE
    /\ mainpc = "ready"
    /\ session = "ready"
    /\ round = 0
    /\ frames = [t \in Threads |-> NoCall]

FaultNext ==
    \/ CallIndexData
    \/ SkipLine
    \/ AppendLine
    \/ DimFlushLine
    \/ DimFinalFlush
    \/ NoFinalFlush
    \/ Refresh
    \/ BadLine

FaultSpec == FaultInit /\ [][FaultNext]_vars

\* The main script: the index is missing, or an earlier run of index_data
\* has left the questions of the data file in it.
MainInit ==
    /\ stream \in DataFiles
    /\ \/ indexExists = FALSE /\ stored = <<>>
       \/ indexExists = TRUE /\ stored = Ingested(stream)
    /\ visible = Len(stored)
    /\ nextId = Len(stored) + 1
    /\ pc = "idle"
    /\ pos = 1
    /\ docs = <<>>
    /\ count = 0
    /\ titles = <<>>
    /\ title_vectors = <<>>
    /\ requests = <<>>
    /\ ops = <<>>
    /\ error = "none"
    /\ runs = 0
    /\ snapshots = <<>>
    /\ response = <<>>
    /\ repeated = FALSE
    /\ mainpc = "start"
    /\ session = "none"
    /\ round = 0
    /\ frames = [t \in Threads |-> NoCall]

MainNext ==
    \/ MainCreateSession
    \/ MainInitialize
    \/ MainCall
    \/ Input(Main)
    \/ Embed(Main)
    \/ EmbedFails(Main)
    \/ SearchFails(Main)
    \/ Search(Main)
    \/ Interrupt
    \/ MainBreak
    \/ MainReturn
    \/ MainLoopEnd
    \/ MainCrash
    \/ MainClose

MainSpec == MainInit /\ [][MainNext]_vars

\* The same where no step that can be taken is put off for ever: the user
\* answers the prompt and every call returns or raises.
FairMainSpec == MainSpec /\ WF_vars(MainNext)

\* handle_query called from several threads over an index that an earlier
\* index_data has filled and nothing rebuilds.
ConcInit ==
    /\ stream \in DataFiles
    /\ indexExists = TRUE
    /\ stored = Ingested(stream)
    /\ visible = Len(stored)
    /\ nextId = Len(stored) + 1
    /\ pc = "idle"
    /\ pos = 1
    /\ docs = <<>>
    /\ count = 0
    /\ titles = <<>>
    /\ title_vectors = <<>>
    /\ requests = <<>>
    /\ ops = <<>>
    /\ error = "none"
    /\ runs = 0
    /\ snapshots = <<>>
    /\ response = <<>>
    /\ repeated = FALSE
    /\ mainpc = "ready"
    /\ session = "ready"
    /\ round = 0
    /\ frames = [t \in Threads |-> NoCall]

ConcNext ==
    \E t \in Threads :
        \/ Call(t)
        \/ Input(t)
        \/ Embed(t)
        \/ EmbedFails(t)
        \/ Search(t)
        \/ SearchFails(t)
        \/ Return(t)

ConcSpec == ConcInit /\ [][ConcNext]_vars

\* Querying as the main script does it: index_data is not called, the
\* index is missing or is the one an earlier run of index_data has left,
\* and handle_query is called again and again.
QueryInit ==
    /\ stream \in DataFiles
    /\ \/ indexExists = FALSE /\ stored = <<>>
       \/ indexExists = TRUE /\ stored = Ingested(stream)
    /\ visible = Len(stored)
    /\ nextId = Len(stored) + 1
    /\ pc = "idle"
    /\ pos = 1
    /\ docs = <<>>
    /\ count = 0
    /\ titles = <<>>
    /\ title_vectors = <<>>
    /\ requests = <<>>
    /\ ops = <<>>
    /\ error = "none"
    /\ runs = 0
    /\ snapshots = <<>>
    /\ response = <<>>
    /\ repeated = FALSE
    /\ mainpc = "ready"
    /\ session = "ready"
    /\ round = 0
    /\ frames = [t \in Threads |-> NoCall]

QueryNext ==
    \/ QueryAnswered
    \/ QueryEmbeddingFails
    \/ QuerySearchFails

QuerySpec == QueryInit /\ [][QueryNext]_vars

(* ======================= properties of ingestion ======================= *)
\* The question records of the data file, in file order.
Questions == SelectSeq(stream, LAMBDA r : r.type = "question")

\* The source fields of stored documents: what was read from the file.
SourceOf(ds) ==
    [i \in 1..Len(ds) |->
        [type |-> ds[i].type, title |-> ds[i].title, body |-> ds[i].body]]

\* The sizes of the bulk writes of the current run, in order.
BulkSizes ==
    LET bulks == SelectSeq(ops, LAMBDA o : o.op = "bulk")
    IN  [i \in 1..Len(bulks) |-> bulks[i].n]

\* C1: the index never holds a record that is not a question, and when a
\* run of index_data has completed the index holds the question records of
\* the data file, each exactly once (N items for N questions, whatever the
\* number M of other records).
C1_ExactlyTheQuestions ==
    /\ \A i \in DOMAIN stored : stored[i].type = "question"
    /\ pc = "done" =>
          /\ SourceOf(stored) = Questions
          /\ \A i, j \in DOMAIN stored : i # j => stored[i].id # stored[j].id

\* A completed run over a file that mixes questions and answers.
C1_Witness ==
    /\ pc = "done"
    /\ Len(stored) >= 2
    /\ Len(stored) < Len(stream)

\* C2: every request index_batch builds carries as title_vector the i-th
\* vector embed_text returned, which is the embedding of the record's own
\* title; so does every stored document.
C2_OwnVectorAttached ==
    /\ \A i \in DOMAIN requests :
          /\ i <= Len(title_vectors)
          /\ requests[i].title_vector = title_vectors[i]
          /\ requests[i].title = titles[i]
          /\ requests[i].title_vector = Encoder(requests[i].title)
    /\ \A i \in DOMAIN stored :
          stored[i].title_vector = Encoder(stored[i].title)

\* A batch of two records with different titles was written.
C2_Witness ==
    /\ Len(requests) >= 2
    /\ requests[1].title # requests[2].title
    /\ Len(stored) >= 2
    /\ error = "none"

\* C3: a completed run over N questions has made ceil(N / BATCH_SIZE) bulk
\* writes, floor(N / BATCH_SIZE) of BATCH_SIZE records followed, if N is no
\* multiple of BATCH_SIZE, by one of N mod BATCH_SIZE records; no bulk write
\* is ever empty or larger than BATCH_SIZE.
C3_BatchSizes ==
    /\ \A i \in DOMAIN BulkSizes :
          BulkSizes[i] >= 1 /\ BulkSizes[i] <= BATCH_SIZE
    /\ pc = "done" =>
          LET N == Len(Questions)
          IN  /\ Len(BulkSizes) = (N + BATCH_SIZE - 1) \div BATCH_SIZE
              /\ \A i \in DOMAIN BulkSizes :
                    BulkSizes[i] = IF i <= N \div BATCH_SIZE
                                   THEN BATCH_SIZE
                                   ELSE N % BATCH_SIZE

\* A completed run over exactly BATCH_SIZE + 1 questions: two bulk writes,
\* of BATCH_SIZE records and of one.
C3_Witness ==
    /\ pc = "done"
    /\ Len(Questions) = BATCH_SIZE + 1
    /\ BulkSizes = <<BATCH_SIZE, 1>>

\* C4: a run drops and creates the index before any bulk write and never
\* again, and every completed run leaves the same content in the index
\* (identifiers aside): a second run adds nothing to the first.
C4_Idempotent ==
    /\ runs >= 1 =>
          /\ Len(ops) >= 2
          /\ ops[1].op = "delete"
          /\ ops[2].op = "create"
          /\ \A i \in DOMAIN ops : i > 2 => ops[i].op \notin {"delete", "create"}
    /\ \A i, j \in DOMAIN snapshots : snapshots[i] = snapshots[j]
    /\ pc = "done" => Content(stored) = snapshots[1]

\* A second run has completed over a file with questions.
C4_Witness ==
    /\ pc = "done"
    /\ Len(snapshots) >= 2
    /\ Len(stored) >= 2

\* C5: the refresh is the last store operation of a run and is issued once;
\* it is not issued while records are still read or flushed; when the run
\* has completed, a search sees all N written records.
C5_RefreshLast ==
    /\ \A i \in DOMAIN ops : ops[i].op = "refresh" => i = Len(ops)
    /\ pc \in {"loop", "refresh"} =>
          \A i \in DOMAIN ops : ops[i].op # "refresh"
    /\ pc = "done" =>
          /\ Len(ops) >= 1
          /\ ops[Len(ops)].op = "refresh"
          /\ visible = Len(stored)
          /\ Len(stored) = Len(Questions)

\* A completed run whose last bulk write was the final partial batch.
C5_Witness ==
    /\ pc = "done"
    /\ Len(BulkSizes) >= 2
    /\ BulkSizes[Len(BulkSizes)] < BATCH_SIZE
    /\ ops[Len(ops)].op = "refresh"
(* ======================== properties of queries ======================== *)
\* The last response was computed on the index as it is now.
ResponseCurrent == response # <<>> /\ response[1].gen = runs /\ AtRest

\* The score the script gives visible document x for the text of a query.
ScoreFor(text, x) == Score(Encoder(text), stored[x].title_vector)

\* C6: a response holds min(SEARCH_SIZE, visible records) hits, never more
\* than SEARCH_SIZE; the hits are distinct visible records, in order of
\* non-increasing score, and no visible record left out scores strictly
\* higher than a hit.
C6_TopK ==
    ResponseCurrent =>
        LET hits == response[1].hits
            text == response[1].text
        IN  /\ Len(hits) = Min(SEARCH_SIZE, visible)
            /\ Len(hits) <= SEARCH_SIZE
            /\ \A i, j \in DOMAIN hits : i < j => hits[i].score >= hits[j].score
            /\ \A i, j \in DOMAIN hits : i # j => hits[i].id # hits[j].id
            /\ \A i \in DOMAIN hits : \E x \in 1..visible :
                  /\ stored[x].id = hits[i].id
                  /\ stored[x].title = hits[i].title
                  /\ stored[x].body = hits[i].body
            /\ \A x \in 1..visible :
                  (\A i \in DOMAIN hits : hits[i].id # stored[x].id)
                     => \A i \in DOMAIN hits : ScoreFor(text, x) <= hits[i].score

\* A response cut at SEARCH_SIZE, with hits of different scores.
C6_Witness ==
    /\ ResponseCurrent
    /\ visible > SEARCH_SIZE
    /\ Len(response[1].hits) = SEARCH_SIZE
    /\ response[1].hits[1].score > response[1].hits[SEARCH_SIZE].score

\* The double of the integer d
Number(d) ==
    Rounded(DoubleDigits, d < 0, Limbs(IF d < 0 THEN 0 - d ELSE d), <<1>>, 0)

\* The float of a bit pattern
FloatOf(b) ==
    IF b = 0 THEN Zero
    ELSE [neg |-> b < 0,
          m   |-> Limbs(((IF b < 0 THEN 0 - b ELSE b) % (2 ^ (FloatDigits - 1)))
                        + 2 ^ (FloatDigits - 1)),
          e   |-> ((IF b < 0 THEN 0 - b ELSE b) \div (2 ^ (FloatDigits - 1)))
                  - 127 - (FloatDigits - 1)]

\* The scores 0.0 and 2.0
NoScore == FloatBits(ToFloat(Number(0)))

TopScore == FloatBits(ToFloat(Number(2)))

\* The rounding the amended claim allows: 2^-50, four times the distance
\* from 1.0 to the next double, for the four rounded operations of the
\* similarity.
Epsilon ==
    [neg |-> FALSE, m |-> Pow2(DoubleDigits - 1),
     e |-> 0 - (DoubleDigits - 1) - (DoubleDigits - 3)]

\* The scores -epsilon and 2.0 + epsilon
LeastScore == 0 - FloatBits(ToFloat(Epsilon))

MostScore == FloatBits(ToFloat(PlusOne(PlusOne(Epsilon))))

\* Integers of either sign: x is x.m, negated if x.neg; y is not negative.
Minus(x, y) ==
    IF x.neg THEN [neg |-> TRUE, m |-> Add(x.m, y)]
    ELSE IF Leq(y, x.m) THEN [neg |-> FALSE, m |-> Sub(x.m, y)]
    ELSE [neg |-> TRUE, m |-> Sub(y, x.m)]

\* A / 2^k <= d / sqrt(P), decided exactly on the squares.
AtMostCosine(A, k, d, P) ==
    IF d >= 0
    THEN \/ A.neg
         \/ A.m = <<>>
         \/ Leq(Mul(Mul(A.m, A.m), Limbs(P)), Mul(Limbs(d * d), Pow2(2 * k)))
    ELSE /\ A.neg
         /\ Leq(Mul(Limbs(d * d), Pow2(2 * k)), Mul(Mul(A.m, A.m), Limbs(P)))

\* A / 2^k >= d / sqrt(P)
AtLeastCosine(A, k, d, P) ==
    AtMostCosine([neg |-> ~A.neg, m |-> A.m], k, 0 - d, P)

\* The float f is d / sqrt(P) + 1.0 to within the distance from 1.0 to the
\* next float; k digits below the point hold f and that distance exactly.
ShiftedCosineAt(f, k, d, P) ==
    /\ AtMostCosine(Minus([neg |-> f.neg, m |-> Mul(f.m, Pow2(k + f.e))],
                          Add(Pow2(k), Pow2(k - (FloatDigits - 1)))),
                    k, d, P)
    /\ AtLeastCosine(Minus([neg |-> f.neg, m |-> Mul(f.m, Pow2(k + f.e))],
                           Sub(Pow2(k), Pow2(k - (FloatDigits - 1)))),
                     k, d, P)

\* The score s is the cosine of q and v plus 1.0 to within the rounding of
\* a float.
ShiftedCosine(s, q, v) ==
    ShiftedCosineAt(FloatOf(s),
                    IF 0 - FloatOf(s).e > FloatDigits - 1
                    THEN 0 - FloatOf(s).e ELSE FloatDigits - 1,
                    Dot(q, v), Dot(q, q) * Dot(v, v))

\* The scores the script gives the visible records, for every query text
\* for which it gives each of them a number.
ScoresOfIndex ==
    {ScoreFor(text, x) : text \in {t \in QueryTexts : ~ScriptFails(Encoder(t))},
                         x \in 1..visible}

\* C7 as stated: the score of every hit is the cosine similarity of the
\* query vector and the record's vector plus 1.0, and the score of every
\* record, returned or not, lies between 0 and 2.
C7_ShiftedScore ==
    /\ \A s \in ScoresOfIndex : s >= NoScore /\ s <= TopScore
    /\ ResponseCurrent =>
          \A i \in DOMAIN response[1].hits :
              LET hit == response[1].hits[i]
              IN  /\ \E x \in 1..visible :
                        /\ stored[x].id = hit.id
                        /\ ShiftedCosine(hit.score, Encoder(response[1].text),
                                         stored[x].title_vector)
                  /\ hit.score >= NoScore
                  /\ hit.score <= TopScore

\* C7 as amended: the score of every hit is the cosine similarity of the
\* query vector and the record's vector plus 1.0 to within the rounding of
\* the computation, and the score of every record, returned or not, lies
\* between 0 - epsilon and 2 + epsilon.
C7_ShiftedScoreRounded ==
    /\ \A s \in ScoresOfIndex : s >= LeastScore /\ s <= MostScore
    /\ ResponseCurrent =>
          \A i \in DOMAIN response[1].hits :
              LET hit == response[1].hits[i]
              IN  /\ \E x \in 1..visible :
                        /\ stored[x].id = hit.id
                        /\ ShiftedCosine(hit.score, Encoder(response[1].text),
                                         stored[x].title_vector)
                  /\ hit.score >= LeastScore
                  /\ hit.score <= MostScore

\* A response with a hit whose similarity was rounded to below -1.0 (the
\* record's vector is opposite to the query's), so that its score is below
\* 0, and a hit of a score between 1 and 2.
C7_Witness ==
    /\ ResponseCurrent
    /\ \E i \in DOMAIN response[1].hits :
          response[1].hits[i].score < NoScore
    /\ \E i \in DOMAIN response[1].hits :
          /\ response[1].hits[i].score > FloatBits(ToFloat(Number(1)))
          /\ response[1].hits[i].score < TopScore

\* A step that answers the same text as the response before it, on an
\* index that was not rebuilt in between.
SameQueryAgain == response # <<>> /\ response' # <<>> /\ repeated'

\* Visible records whose score for the text is s.
ScoredAs(text, s) == {x \in 1..visible : ScoreFor(text, x) = s}

\* C8 as stated: the same text asked twice on an unchanged index gets the
\* same ids in the same order with the same scores, ties included.
C8_SameHitsAlways ==
    [][SameQueryAgain => response'[1].hits = response[1].hits]_vars

\* C8 as amended: the same text asked twice on an unchanged index gets the
\* same scores in the same order, and the same id at every rank whose score
\* no other visible record shares.
C8_SameScoresSameUntiedIds ==
    [][SameQueryAgain =>
          LET old == response[1].hits
              new == response'[1].hits
          IN  /\ Len(new) = Len(old)
              /\ \A i \in DOMAIN old :
                    /\ new[i].score = old[i].score
                    /\ Cardinality(ScoredAs(response[1].text, old[i].score)) = 1
                          => new[i] = old[i]]_vars

\* The same text was answered twice in a row, with two hits of different
\* scores.
C8_Witness ==
    /\ repeated
    /\ ResponseCurrent
    /\ Len(response[1].hits) >= 2
    /\ response[1].hits[1].score > response[1].hits[2].score

(* ================== failures during ingestion ========================= *)
\* C9 as stated: a failure of the embedding call or of the bulk write of a
\* batch does not end the run: index_data is never left by that exception.
C9_BatchFailureDoesNotAbort ==
    ~(pc = "failed" /\ error \in {"EmbeddingError", "BulkIndexError"})

\* C10 as stated: when embed_text returns a number of vectors that differs
\* from the number of titles, the batch fails and none of its records is
\* stored.
C10_CountMismatchWritesNothing ==
    (Len(title_vectors) # Len(titles)) =>
        /\ pc = "failed"
        /\ \A i \in DOMAIN requests : \A j \in DOMAIN stored :
              stored[j].body # requests[i].body
(* ============== malformed input and wrong dimensions ================== *)
\* C11 as stated: when embed_text returns a vector whose length is not the
\* declared dimension for a record of a batch, the batch fails and no
\* record of that batch is stored.
C11_WrongDimensionWritesNothing ==
    (\E i \in DOMAIN title_vectors : Len(title_vectors[i]) # Dims) =>
        /\ pc = "failed"
        /\ \A i \in DOMAIN requests : \A j \in DOMAIN stored :
              stored[j].body # requests[i].body

\* C12 as stated: a malformed line (not JSON, empty, without "type" or
\* without "title") is skipped and does not end the run.
C12_MalformedLineSkipped ==
    ~(pc = "failed" /\ error \in {"JSONDecodeError", "KeyError"})

(* ------------------------ zero vectors in the index -------------------- *)
\* The vector has magnitude zero.
ZeroVector(v) == Magnitude(v) = Zero

\* C17 as stated: a visible record whose vector is the zero vector does not
\* make a query fail: no search is rejected for a score that is not a
\* number.
C17_ZeroVectorIsNoError ==
    (\E x \in 1..visible : ZeroVector(stored[x].title_vector)) =>
        error # "RequestError"

(* ----------------------- the loop of index_data ------------------------ *)
\* The question records among the first n lines of the data file.
QuestionsIn(n) ==
    SelectSeq(SubSeq(stream, 1, n), LAMBDA r : r.type = "question")

RECURSIVE SumTo(_, _)
\* s[1] + ... + s[n]
SumTo(s, n) == IF n = 0 THEN 0 ELSE s[n] + SumTo(s, n - 1)

\* The number of records passed to bulk by the first k operations of the run.
WrittenBefore(k) ==
    SumTo([j \in 1..k |-> IF ops[j].op = "bulk" THEN ops[j].n ELSE 0], k)

\* C18: at the head of every iteration of index_data, count is the number of
\* question records read so far, docs holds the last count mod BATCH_SIZE of
\* them in source order, fewer than BATCH_SIZE, and the records passed to
\* bulk so far number count - len(docs); every "Indexed n documents" report
\* gives the number of records written before it.
C18_LoopInvariant ==
    /\ pc = "loop" =>
          LET read == QuestionsIn(pos - 1)
          IN  /\ count = Len(read)
              /\ Len(docs) = count % BATCH_SIZE
              /\ Len(docs) < BATCH_SIZE
              /\ docs = SubSeq(read, count - Len(docs) + 1, count)
              /\ WrittenBefore(Len(ops)) = count - Len(docs)
    /\ \A k \in DOMAIN ops :
          ops[k].op = "print" => ops[k].n = WrittenBefore(k)

\* A batch has been written and the next one is being filled.
C18_Witness ==
    /\ pc = "loop"
    /\ docs # <<>>
    /\ \E k \in DOMAIN ops : ops[k].op = "print" /\ ops[k].n = BATCH_SIZE

(* --------------------- the main script and its loop -------------------- *)
\* C13 as stated: a failure of the embedding call or of the search ends
\* only the query it happened in, and the caller can submit the next one:
\* the script is never ended by a failed query while iterations remain.
C13_FailedQueryEndsOnlyItself ==
    ~(mainpc = "crashed" /\ round + 1 < QueryRounds)

\* C14 as stated: handle_query runs only on the initialized session, and
\* on every path by which the script ends the session has been closed.
C14_SessionClosedOnEveryPath ==
    /\ frames[Main].pc # "idle" => session = "ready"
    /\ mainpc \in {"exit", "crashed"} => session = "closed"

\* C15 as stated: when the main script is in handle_query, an index_data
\* of this run has been called and has run to its end.
C15_IngestionBeforeQueries ==
    frames[Main].pc # "idle" => (runs >= 1 /\ pc = "done")

\* C16: a query changes nothing in the index, every call embeds its own
\* text, and whatever the interleaving with another call, a call returns
\* hits the store can return for its text on that index when the call is
\* the only one.
C16_QueriesIndependent ==
    /\ indexExists
    /\ stored = Ingested(stream)
    /\ visible = Len(stored)
    /\ \A t \in Threads :
          /\ frames[t].pc \in {"search", "done"} =>
                frames[t].query_vector = Encoder(frames[t].query)
          /\ frames[t].pc = "done" =>
                frames[t].hits \in
                    SearchResponses(Encoder(frames[t].query), SEARCH_SIZE)

\* One call has its hits while another call, for another text, is between
\* its embedding and its search.
C16_Witness ==
    /\ frames[Main].pc = "done"
    /\ frames[Main].hits # <<>>
    /\ frames["worker"].pc = "search"
    /\ frames["worker"].query # frames[Main].query

\* C19: run_query_loop ends: it completes at most QueryRounds queries; a
\* KeyboardInterrupt inside handle_query leaves the loop at once, no query
\* is handled after the loop, and after the interrupt the main script closes
\* the session and ends.
C19_LoopTerminates ==
    /\ [](round <= QueryRounds)
    /\ [][frames[Main].pc = "interrupted" =>
            (frames'[Main].pc = "idle" /\ mainpc' = "close")]_vars
    /\ [](mainpc \in {"close", "exit"} => frames[Main].pc = "idle")
    /\ <>(mainpc \in {"close", "exit", "crashed"})
    /\ (frames[Main].pc = "interrupted") ~>
            (mainpc = "exit" /\ session = "closed")

\* The script has ended after an interrupt in the middle of the loop.
C19_Witness ==
    /\ mainpc = "exit"
    /\ session = "closed"
    /\ round \in 1..(QueryRounds - 1)
====
